---------------------------- MODULE Spec2Model ----------------------------
(***************************************************************************)
(* A model of the muller_diagrams pipeline (cdeitrick/muller_diagrams):    *)
(* the ggmuller edge and population tables, the background checks, the     *)
(* genotype sorter and generate_genotypes.                                 *)
(*                                                                         *)
(* Conventions.                                                            *)
(*  - A genotype label "genotype-n" is the integer n; ROOT (0) is the      *)
(*    synthetic "genotype-0".                                              *)
(*  - A frequency f in [0,1] is the integer 100*f (hundredths), so the     *)
(*    hard-coded detection limit 0.03 is 3 and the value 1.0 is 100.       *)
(*  - A raised Python exception is recorded by its class name in the       *)
(*    component's *_raised variable ("none" when the call returned).       *)
(***************************************************************************)
EXTENDS Integers, Sequences, FiniteSets, TLC

VARIABLES
    \* ---- edge table builders (generate_tables.py / format_output.py)
    genotype_clusters,  \* the ClusterType argument: its values(), in order
    edge_table,         \* the returned DataFrame rows [Parent, Identity]
    edge_raised,        \* "none" or the exception class raised
    edge_pc,            \* "ready" | "done"
    \* ---- background checks (inheritance/checks.py)
    left,               \* the `left` series: one frequency per timepoint
    right,              \* the `right` series, on the same timepoints
    additive_check,     \* "unset", or what check_additive_background returned
    subtractive_check,  \* "unset", or what check_subtractive_background returned
    check_options,      \* the cluster options the cutoffs are read from
    points_dlimit,      \* the dlimit argument of get_detected_points
    detected_points,    \* the frame get_detected_points returned
    derivative_check,   \* what check_derivative_background returned
    genotype_checks,    \* the tuple apply_genotype_checks returned
    checks_table,       \* the frame apply_genotype_checks_to_table returned
    checks_pc,          \* "ready", or the function that was called
    \* ---- population table builders (generate_tables.py / format_output.py)
    mean_genotypes,     \* genotype label -> mean frequency per timepoint
    edges,              \* the edge table argument: rows [Parent, Identity]
    population_table,   \* the returned rows [Identity, Generation, Population]
    detection_cutoff,   \* the detection_cutoff argument (0.03 by default)
    pop_raised,         \* "none" or the exception class raised
    pop_pc,             \* "ready" | "done"
    \* ---- genotype sorter (sort_genotypes.py)
    genotype_frequencies, \* the table: index (row order), columns, values
    sort_options,       \* the SortOptions argument
    sorted_frames,      \* the frames the tier loop appended, with their tier
    sorted_genotypes,   \* the index of the returned table, in order
    sort_raised,        \* "none" or the exception class raised
    sort_pc,            \* "ready" | "done"
    \* ---- genotype generation (muller_genotypes/generate.py, widgets.py)
    PAIRWISE_CALCULATIONS, \* the module-level cache: a set of <<pair, value>>
    timepoints,         \* the index of the table of the latest call
    timepoint_columns,  \* the columns of that table, in its order
    genotype_options,   \* the GenotypeOptions of the latest call
    gen_result,         \* what the latest call returned
    gen_raised,         \* "none" or the exception class the call raised
    trajectory_to_genotype, \* the dictionary built from the member lists
    gen_pc,             \* "ready" | "returned" | "raised" | "mapped"
    p_value_matrix,     \* the frame generate_p_value_matrix returned
    matrix_pc,          \* "unset" | "done" | the exception class raised
    \* ---- fixed overlap metric (clustering.metrics.distance_calculator)
    overlap_left,       \* the `left` series
    overlap_right,      \* the `right` series, of the same length
    overlap_result,     \* what fixed_overlap returned (NAN for nan)
    overlap_pc,         \* "ready" | "done"
    \* ---- valid points of a pair (widgets.get_valid_points)
    left_trajectory,    \* the `left_trajectory` series, index 0, 1, 2, ...
    right_trajectory,   \* the `right_trajectory` series, on the same index
    valid_arguments,    \* the dlimit, flimit and inner arguments
    at_least_one_detected, \* the list of that name the call built
    valid_result,       \* the two series the call returned, and their index
    valid_pc,           \* "ready" | "done"
    \* ---- output tables (format_output.py)
    workflow_data,      \* the WorkflowData object handed through the output
    color_palette,      \* genotype label -> colour
    formatted_output,   \* what generate_formatted_output returned
    saved_files,        \* the files save_output wrote
    output_raised,      \* "none" or the exception class raised
    output_pc           \* "ready" | "formatted" | "saved" | "raised"

edge_vars == <<genotype_clusters, edge_table, edge_raised, edge_pc>>

check_vars ==
    <<left, right, additive_check, subtractive_check, check_options,
      points_dlimit, detected_points, derivative_check, genotype_checks, checks_table,
      checks_pc>>

pop_vars ==
    <<mean_genotypes, edges, detection_cutoff, population_table, pop_raised,
      pop_pc>>

sort_vars ==
    <<genotype_frequencies, sort_options, sorted_frames, sorted_genotypes,
      sort_raised, sort_pc>>

gen_vars ==
    <<PAIRWISE_CALCULATIONS, timepoints, timepoint_columns, genotype_options,
      gen_result, gen_raised, trajectory_to_genotype, gen_pc, p_value_matrix,
      matrix_pc>>

overlap_vars == <<overlap_left, overlap_right, overlap_result, overlap_pc>>

valid_vars ==
    <<left_trajectory, right_trajectory, valid_arguments,
      at_least_one_detected, valid_result, valid_pc>>

output_vars ==
    <<workflow_data, color_palette, formatted_output, saved_files,
      output_raised, output_pc>>

vars ==
    <<edge_vars, check_vars, pop_vars, sort_vars, gen_vars, overlap_vars,
      valid_vars, output_vars>>

\* ------------------------------------------------------------------------
\* Generic helpers
\* ------------------------------------------------------------------------

\* Sequences over S of length 0..n.
SeqUpTo(S, n) == UNION {[1..k -> S] : k \in 0..n}

Range(s) == {s[i] : i \in 1..Len(s)}

RECURSIVE SumSeq(_)
SumSeq(s) == IF Len(s) = 0 THEN 0 ELSE s[1] + SumSeq(Tail(s))

\* ------------------------------------------------------------------------
\* Edge table: generate_ggmuller_edges_table / create_ggmuller_edges
\* ------------------------------------------------------------------------

ROOT == 0

\* The genotype labels a cluster dictionary may hold.
GenotypeNames == {1, 2, 3}

\* Longest background list drawn for a genotype.
MaxBackground == 2

\* One ClusterType per set of names: the values() of the dictionary, keyed by
\* name, each Genotype with any background list over the dictionary's names.
RECURSIVE ClustersOver(_, _)
ClustersOver(names, all) ==
    IF names = {} THEN {<<>>}
    ELSE LET n == CHOOSE x \in names : \A y \in names : x <= y
         IN {<<[name |-> n, background |-> b]>> \o rest :
                 b \in SeqUpTo(all, MaxBackground),
                 rest \in ClustersOver(names \ {n}, all)}

AllClusters ==
    UNION {ClustersOver(names, names) : names \in SUBSET GenotypeNames}

\* The loop body of the builders: one row for one Genotype. The second test
\* applies to the parent chosen by the first.
EdgeRowNoSelfCheck(genotype_info) ==
    LET identity == genotype_info.name
        background == genotype_info.background
        parent == IF Len(background) = 1 THEN ROOT ELSE background[1]
    IN [Parent |-> parent, Identity |-> identity]

EdgeRow(genotype_info) ==
    LET identity == genotype_info.name
        background == genotype_info.background
        parent == IF Len(background) = 1 THEN ROOT ELSE background[1]
    IN [Parent |-> IF parent = identity THEN ROOT ELSE parent,
        Identity |-> identity]

\* background[0] on an empty list raises IndexError; DataFrame([])[[...]] on
\* an empty row list raises KeyError (the frame has no columns).
EdgeRaises(clusters) ==
    IF \E i \in 1..Len(clusters) : Len(clusters[i].background) = 0
    THEN "IndexError"
    ELSE IF Len(clusters) = 0 THEN "KeyError" ELSE "none"

EdgeRows(clusters) == [i \in 1..Len(clusters) |-> EdgeRow(clusters[i])]

\* generate_tables.generate_ggmuller_edges_table
generate_ggmuller_edges_table ==
    /\ edge_pc = "ready"
    /\ edge_raised' = EdgeRaises(genotype_clusters)
    /\ edge_table' = IF EdgeRaises(genotype_clusters) = "none"
                     THEN EdgeRows(genotype_clusters) ELSE <<>>
    /\ edge_pc' = "done"
    /\ UNCHANGED genotype_clusters
    /\ UNCHANGED <<check_vars, pop_vars, sort_vars, gen_vars, overlap_vars,
                   valid_vars, output_vars>>

\* format_output.create_ggmuller_edges (the same body)
create_ggmuller_edges ==
    /\ edge_pc = "ready"
    /\ edge_raised' = EdgeRaises(genotype_clusters)
    /\ edge_table' = IF EdgeRaises(genotype_clusters) = "none"
                     THEN EdgeRows(genotype_clusters) ELSE <<>>
    /\ edge_pc' = "done"
    /\ UNCHANGED genotype_clusters
    /\ UNCHANGED <<check_vars, pop_vars, sort_vars, gen_vars, overlap_vars,
                   valid_vars, output_vars>>

EdgeInit ==
    /\ genotype_clusters \in AllClusters
    /\ edge_table = <<>>
    /\ edge_raised = "none"
    /\ edge_pc = "ready"

EdgeNext == generate_ggmuller_edges_table \/ create_ggmuller_edges

\* ------------------------------------------------------------------------
\* Background checks: inheritance/checks.py
\* ------------------------------------------------------------------------

\* Number of timepoints of a series handed to the checks.
NSeries == 3

\* Frequencies (hundredths) a series may hold: absent, exactly at the
\* detection limit, half, fixed.
FreqGrid == {0, 3, 50, 100}

AllSeries == [1..NSeries -> FreqGrid]

\* The hard-coded dlimit the checks pass to get_detected_points (0.03).
CHECKS_DLIMIT == 3

\* Select the entries of s at the positions where keep holds, in order.
RECURSIVE SelectIdx(_, _, _)
SelectIdx(s, keep, i) ==
    IF i > Len(s) THEN <<>>
    ELSE (IF keep[i] THEN <<s[i]>> ELSE <<>>) \o SelectIdx(s, keep, i + 1)

\* A variant of get_detected_points that drops a row on the left value alone.
get_detected_points_left_only(l, r, dlimit) ==
    LET df == [i \in 1..Len(l) |-> <<l[i], r[i]>>]
    IN SelectIdx(df, [i \in 1..Len(l) |-> ~(l[i] < dlimit)], 1)

\* checks.get_detected_points: the rows <<left, right>> of the two-column
\* frame, without those where both values are below dlimit.
get_detected_points(l, r, dlimit) ==
    LET df == [i \in 1..Len(l) |-> <<l[i], r[i]>>]
        dropped == [i \in 1..Len(l) |-> l[i] < dlimit /\ r[i] < dlimit]
    IN SelectIdx(df, [i \in 1..Len(l) |-> ~dropped[i]], 1)

\* A p-value is kept as the band it falls in: 0 for exactly 0, 50 for
\* (0, 0.05], 100 for (0.05, 0.10], 1000 for (0.10, 1]; NAN for nan.
NAN == -1

\* Squares, times 100, of the two-sided critical values of Student's t for
\* 1..8 degrees of freedom: |t| >= the value <=> p <= 0.05 (resp. 0.10).
TCrit05Sq == <<16145, 1851, 1013, 771, 661, 599, 559, 532>>
TCrit10Sq == <<3986, 853, 554, 454, 406, 378, 359, 346>>

RECURSIVE SumSq(_)
SumSq(s) == IF Len(s) = 0 THEN 0 ELSE s[1] * s[1] + SumSq(Tail(s))

\* scipy.stats.ttest_1samp(values, popmean) for a non-empty sample, in exact
\* arithmetic: t = (mean - popmean) / sqrt(var / n) with var the ddof = 1
\* variance, so t^2 = (n - 1) D^2 / V with D = sum - n popmean and
\* V = n sum(x^2) - sum^2. One observation gives var = nan; a constant sample
\* gives t = d / 0: nan when d = 0, +-inf (p = 0) otherwise.
ttest_1samp(values, popmean) ==
    LET n == Len(values)
        D == SumSeq(values) - n * popmean
        V == n * SumSq(values) - SumSeq(values) * SumSeq(values)
        sign == IF D > 0 THEN 1 ELSE IF D < 0 THEN -1 ELSE 0
    IN IF n = 1 THEN [statistic |-> NAN, sign |-> 0, pvalue |-> NAN]
       ELSE IF V = 0
            THEN IF D = 0 THEN [statistic |-> NAN, sign |-> 0, pvalue |-> NAN]
                 ELSE [statistic |-> sign, sign |-> sign, pvalue |-> 0]
       ELSE [statistic |-> sign, sign |-> sign,
             pvalue |-> IF 100 * (n - 1) * D * D >= TCrit05Sq[n - 1] * V THEN 50
                        ELSE IF 100 * (n - 1) * D * D >= TCrit10Sq[n - 1] * V
                             THEN 100 ELSE 1000]

\* `statistic, pvalue = 0, 0`: the fallback for an empty sample.
NeutralResult == [statistic |-> 0, sign |-> 0, pvalue |-> 0]

\* pvalue / 2, as a band: p <= 0.10 halves into (0, 0.05], anything larger
\* into (0.05, 0.5]; nan / 2 is nan.
HalfPValue(pvalue) ==
    IF pvalue = NAN THEN NAN
    ELSE IF pvalue = 0 THEN 0
    ELSE IF pvalue <= 100 THEN 50 ELSE 1000

\* Python's `p <= 0.05` and `p > 0.05`: both False for nan.
PLeq05(pvalue) == pvalue # NAN /\ pvalue <= 50
PGt05(pvalue) == pvalue # NAN /\ pvalue > 50

\* detected.sum(axis = 1)
RowSums(detected) == [i \in 1..Len(detected) |-> detected[i][1] + detected[i][2]]

AbsVal(x) == IF x < 0 THEN -x ELSE x

\* abs(detected.iloc[:, 0] - detected.iloc[:, 1])
RowAbsDiffs(detected) ==
    [i \in 1..Len(detected) |-> AbsVal(detected[i][1] - detected[i][2])]

\* The test of check_additive_background on the row sums.
AdditiveTest(l, r) ==
    LET genotypesum == RowSums(get_detected_points(l, r, CHECKS_DLIMIT))
    IN IF Len(genotypesum) # 0 THEN ttest_1samp(genotypesum, 100)
       ELSE NeutralResult

\* detected.sum(axis = 1) of check_additive_background_legacy: the sums
\* left + right that are above 0.03.
LegacySums(l, r) ==
    SelectIdx([i \in 1..Len(l) |-> l[i] + r[i]],
              [i \in 1..Len(l) |-> l[i] + r[i] > CHECKS_DLIMIT], 1)

\* (s > cutoff).sum() and (s < cutoff).sum()
CountAbove(s, cutoff) == Cardinality({i \in 1..Len(s) : s[i] > cutoff})

CountBelow(s, cutoff) == Cardinality({i \in 1..Len(s) : s[i] < cutoff})

\* check_additive_background_legacy: some sum exceeds a cutoff.
CheckAdditiveLegacy(l, r, double_cutoff, single_cutoff) ==
    \/ CountAbove(LegacySums(l, r), double_cutoff) > 0
    \/ CountAbove(LegacySums(l, r), single_cutoff) > 0

\* check_additive_background(left, right, double_cutoff, single_cutoff):
\* neither cutoff is read.
CheckAdditive(l, r, double_cutoff, single_cutoff) ==
    ~PLeq05(HalfPValue(AdditiveTest(l, r).pvalue))

\* The test of check_subtractive_background on the absolute differences.
SubtractiveTest(l, r) ==
    LET difference == RowAbsDiffs(get_detected_points(l, r, CHECKS_DLIMIT))
    IN IF Len(difference) # 0 THEN ttest_1samp(difference, 0)
       ELSE NeutralResult

\* -abs(right - left) of check_subtractive_background_legacy.
LegacyDiffs(l, r) == [i \in 1..Len(l) |-> -AbsVal(r[i] - l[i])]

\* check_subtractive_background_legacy: two differences pass the double
\* cutoff or one passes the single cutoff.
CheckSubtractiveLegacy(l, r, double_cutoff, single_cutoff) ==
    \/ CountBelow(LegacyDiffs(l, r), double_cutoff) > 1
    \/ CountBelow(LegacyDiffs(l, r), single_cutoff) > 0

\* check_subtractive_background(left, right, double_cutoff, single_cutoff):
\* neither cutoff is read.
CheckSubtractive(l, r, double_cutoff, single_cutoff) ==
    PGt05(SubtractiveTest(l, r).pvalue)

\* A returned Python bool, as stored in a result variable.
PyBool(b) == IF b THEN "True" ELSE "False"

\* The cluster options the checks read their cutoffs from: the defaults and
\* a second setting; frequencies in hundredths.
CheckOptionsSet ==
    {[additive_background_double_cutoff |-> 103,
      additive_background_single_cutoff |-> 115,
      subtractive_background_double_cutoff |-> -2,
      subtractive_background_single_cutoff |-> -15,
      derivative_detection_cutoff |-> 3],
     [additive_background_double_cutoff |-> 50,
      additive_background_single_cutoff |-> 60,
      subtractive_background_double_cutoff |-> -50,
      subtractive_background_single_cutoff |-> -60,
      derivative_detection_cutoff |-> 50]}

\* The dlimit values get_detected_points is called with.
DLimits == {3, 50}

RECURSIVE SumProducts(_, _)
SumProducts(a, b) ==
    IF Len(a) = 0 THEN 0 ELSE a[1] * b[1] + SumProducts(Tail(a), Tail(b))

\* A float result: None, nan, or the fraction num / den.
FloatNone == [kind |-> "None", num |-> 0, den |-> 1]
FloatNaN == [kind |-> "nan", num |-> 0, den |-> 1]

\* pandas.Series.cov: the ddof = 1 covariance over all the timepoints of
\* the two series, sum((x - mx)(y - my)) / (n - 1)
\* = (n sum(xy) - sum(x) sum(y)) / (n (n - 1)); nan under two observations.
SeriesCov(l, r) ==
    LET n == Len(l)
    IN IF n < 2 THEN FloatNaN
       ELSE [kind |-> "value",
             num |-> n * SumProducts(l, r) - SumSeq(l) * SumSeq(r),
             den |-> n * (n - 1)]

\* check_derivative_background(left, right, detection_cutoff): the cutoff
\* is not read.
CheckDerivative(l, r, cutoff) == SeriesCov(l, r)

\* apply_genotype_checks(type_trajectory, test_trajectory, options)
ApplyGenotypeChecks(type_trajectory, test_trajectory, options) ==
    LET additive ==
            CheckAdditive(type_trajectory, test_trajectory,
                          options.additive_background_double_cutoff,
                          options.additive_background_single_cutoff)
        subtractive ==
            CheckSubtractive(type_trajectory, test_trajectory,
                             options.subtractive_background_double_cutoff,
                             options.subtractive_background_single_cutoff)
    IN [additive_check |-> PyBool(additive),
        subtractive_check |-> PyBool(subtractive),
        delta |-> IF subtractive THEN FloatNone
                  ELSE CheckDerivative(type_trajectory, test_trajectory,
                                       options.derivative_detection_cutoff)]

\* apply_genotype_checks_to_table(unnested_trajectory, table, options): one
\* row per row of the table, each of the three checks applied to it.
ApplyGenotypeChecksToTable(unnested_trajectory, table, options) ==
    [i \in 1..Len(table) |->
        [additiveCheck |->
            PyBool(CheckAdditive(table[i], unnested_trajectory,
                                 options.additive_background_double_cutoff,
                                 options.additive_background_single_cutoff)),
         subtractiveCheck |->
            PyBool(CheckSubtractive(table[i], unnested_trajectory,
                                    options.subtractive_background_double_cutoff,
                                    options.subtractive_background_single_cutoff)),
         derivativeCheck |->
            CheckDerivative(table[i], unnested_trajectory,
                            options.derivative_detection_cutoff)]]

\* The genotype table handed to apply_genotype_checks_to_table: the two
\* series as its rows, compared with the second of them.
ChecksInputTable == <<left, right>>

NoGenotypeChecks ==
    [additive_check |-> "unset", subtractive_check |-> "unset",
     delta |-> FloatNone]

CheckFrame ==
    UNCHANGED <<edge_vars, pop_vars, sort_vars, gen_vars, overlap_vars,
                   valid_vars, output_vars>>

check_additive_background ==
    /\ checks_pc = "ready"
    /\ additive_check = "unset"
    /\ additive_check' =
         PyBool(CheckAdditive(left, right,
                              check_options.additive_background_double_cutoff,
                              check_options.additive_background_single_cutoff))
    /\ UNCHANGED <<left, right, subtractive_check, check_options, points_dlimit,
                   detected_points, derivative_check, genotype_checks,
                   checks_table, checks_pc>>
    /\ CheckFrame

check_subtractive_background ==
    /\ checks_pc = "ready"
    /\ subtractive_check = "unset"
    /\ subtractive_check' =
         PyBool(CheckSubtractive(left, right,
                           check_options.subtractive_background_double_cutoff,
                           check_options.subtractive_background_single_cutoff))
    /\ UNCHANGED <<left, right, additive_check, check_options, points_dlimit,
                   detected_points, derivative_check, genotype_checks,
                   checks_table, checks_pc>>
    /\ CheckFrame

\* A call of the combined functions starts from a pair no check has run on.
ChecksFresh ==
    /\ checks_pc = "ready"
    /\ additive_check = "unset"
    /\ subtractive_check = "unset"

\* get_detected_points(left, right, dlimit), called on its own.
get_detected_points_call ==
    /\ ChecksFresh
    /\ \E d \in DLimits :
         /\ points_dlimit' = d
         /\ detected_points' = get_detected_points(left, right, d)
    /\ checks_pc' = "get_detected_points"
    /\ UNCHANGED <<left, right, additive_check, subtractive_check,
                   check_options, derivative_check, genotype_checks,
                   checks_table>>
    /\ CheckFrame

check_derivative_background ==
    /\ ChecksFresh
    /\ derivative_check' =
         CheckDerivative(left, right,
                         check_options.derivative_detection_cutoff)
    /\ checks_pc' = "check_derivative_background"
    /\ UNCHANGED <<left, right, additive_check, subtractive_check,
                   check_options, points_dlimit, detected_points,
                   genotype_checks,
                   checks_table>>
    /\ CheckFrame

apply_genotype_checks ==
    /\ ChecksFresh
    /\ genotype_checks' = ApplyGenotypeChecks(left, right, check_options)
    /\ checks_pc' = "apply_genotype_checks"
    /\ UNCHANGED <<left, right, additive_check, subtractive_check,
                   check_options, points_dlimit, detected_points,
                   derivative_check,
                   checks_table>>
    /\ CheckFrame

apply_genotype_checks_to_table ==
    /\ ChecksFresh
    /\ checks_table' =
         ApplyGenotypeChecksToTable(right, ChecksInputTable, check_options)
    /\ checks_pc' = "apply_genotype_checks_to_table"
    /\ UNCHANGED <<left, right, additive_check, subtractive_check,
                   check_options, points_dlimit, detected_points,
                   derivative_check,
                   genotype_checks>>
    /\ CheckFrame

CheckInit ==
    /\ left \in AllSeries
    /\ right \in AllSeries
    /\ check_options \in CheckOptionsSet
    /\ additive_check = "unset"
    /\ subtractive_check = "unset"
    /\ points_dlimit = CHECKS_DLIMIT
    /\ detected_points = <<>>
    /\ derivative_check = FloatNone
    /\ genotype_checks = NoGenotypeChecks
    /\ checks_table = <<>>
    /\ checks_pc = "ready"

CheckNext ==
    \/ check_additive_background
    \/ check_subtractive_background
    \/ get_detected_points_call
    \/ check_derivative_background
    \/ apply_genotype_checks
    \/ apply_genotype_checks_to_table

\* ------------------------------------------------------------------------
\* Population table: generate_ggmuller_population_table /
\* convert_population_to_ggmuller_format
\* ------------------------------------------------------------------------

\* The rows (genotype labels) of the mean genotype table.
PopLabels == {1, 2, 3}

\* Number of timepoint columns of the mean genotype table; the column
\* labels ("Generation") are 1..NGenerations.
NGenerations == 1

Generations == 1..NGenerations

\* Mean frequencies (hundredths) a cell may hold.
PopGrid == {0, 4, 50, 52}

MeanTables == [PopLabels -> [Generations -> PopGrid]]

\* The edge tables the edge builders return for clusters over PopLabels: one
\* row per label, in order, its Parent genotype-0 or another label.
RECURSIVE EdgeTablesOver(_)
EdgeTablesOver(labels) ==
    IF labels = {} THEN {<<>>}
    ELSE LET n == CHOOSE x \in labels : \A y \in labels : x <= y
         IN {<<[Parent |-> q, Identity |-> n]>> \o rest :
                 q \in ({ROOT} \cup PopLabels) \ {n},
                 rest \in EdgeTablesOver(labels \ {n})}

\* format_output.DETECTION_CUTOFF = 0.03
DETECTION_CUTOFF == 3

\* The value mask() writes over a difference below the cutoff: 0.01.
MASK_VALUE == 1

\* 100 percent, in the unit of Population (frequency unit * 100).
FULL == 100 * 100

\* The labels of a set, ascending, as a sequence.
RECURSIVE Ascending(_)
Ascending(S) ==
    IF S = {} THEN <<>>
    ELSE LET n == CHOOSE x \in S : \A y \in S : x <= y
         IN <<n>> \o Ascending(S \ {n})

RECURSIVE Flatten(_)
Flatten(ss) == IF Len(ss) = 0 THEN <<>> ELSE ss[1] \o Flatten(Tail(ss))

MaxOf(S) == CHOOSE x \in S : \A y \in S : y <= x

\* children[parent]: the identities of the edge rows naming `parent`.
Children(edge_rows, parent) ==
    {edge_rows[i].Identity : i \in {j \in 1..Len(edge_rows) :
                                        edge_rows[j].Parent = parent}}

\* modified_genotypes.index: the labels that appear as an Identity (the
\* isin filter of generate_ggmuller_population_table).
FilteredLabels(table, edge_rows) ==
    {g \in DOMAIN table : \E i \in 1..Len(edge_rows) : edge_rows[i].Identity = g}

\* The frequencies emitted for one genotype: timepoint -> frequency, NAN
\* where the timepoint is dropped. A genotype with children keeps the
\* timepoints where it is above the cutoff, holds there its frequency minus
\* the largest child frequency, and MASK_VALUE where that is below the
\* cutoff; a genotype without children keeps every timepoint as it is.
GenotypeFrequencies(table, labels, edge_rows, g, cutoff) ==
    LET kids == Children(edge_rows, g) \cap labels
    IN [t \in Generations |->
          IF Children(edge_rows, g) # {}
          THEN IF table[g][t] > cutoff
               THEN LET d == table[g][t] - MaxOf({table[c][t] : c \in kids})
                    IN IF d < cutoff THEN MASK_VALUE ELSE d
               ELSE NAN
          ELSE table[g][t]]

\* The rows appended for one genotype, one per emitted timepoint.
GenotypeRows(table, labels, edge_rows, g, cutoff) ==
    LET f == GenotypeFrequencies(table, labels, edge_rows, g, cutoff)
        emitted == Ascending({t \in Generations : f[t] # NAN})
    IN [k \in 1..Len(emitted) |->
          [Identity |-> g, Generation |-> emitted[k],
           Population |-> f[emitted[k]] * 100]]

\* The sum of Population over the rows of one generation.
GenerationSum(rows, generation) ==
    SumSeq(SelectIdx([i \in 1..Len(rows) |-> rows[i].Population],
                     [i \in 1..Len(rows) |-> rows[i].Generation = generation],
                     1))

\* The Population of the genotype-0 row of a generation.
RootPopulationAlwaysFull(population) == FULL

RootPopulationUnclamped(population) == FULL - population

RootPopulation(population) ==
    IF population <= FULL THEN FULL - population ELSE 0

\* The genotype-0 rows: one per Generation group of the rows built so far.
\* A variant of RootRows that also starts the table of genotype-0 with a
\* full population at generation 0.
RootRowsWithGenerationZero(rows) ==
    LET groups == Ascending({rows[i].Generation : i \in 1..Len(rows)})
    IN <<[Identity |-> ROOT, Generation |-> 0, Population |-> FULL]>>
       \o [k \in 1..Len(groups) |->
             [Identity |-> ROOT, Generation |-> groups[k],
              Population |-> RootPopulation(GenerationSum(rows, groups[k]))]]

RootRows(rows) ==
    LET groups == Ascending({rows[i].Generation : i \in 1..Len(rows)})
    IN [k \in 1..Len(groups) |->
          [Identity |-> ROOT, Generation |-> groups[k],
           Population |-> RootPopulation(GenerationSum(rows, groups[k]))]]

\* The whole table over the given rows of the genotype table.
PopulationRows(table, labels, edge_rows, cutoff) ==
    LET order == Ascending(labels)
        rows == Flatten([k \in 1..Len(order) |->
                    GenotypeRows(table, labels, edge_rows, order[k], cutoff)])
    IN rows \o RootRows(rows)

\* groupby(by = 'Generation') on a frame built from no rows raises KeyError;
\* .loc[children] raises KeyError when no child label is a row.
PopulationRaises(table, labels, edge_rows, cutoff) ==
    IF \E g \in labels : Children(edge_rows, g) # {}
                            /\ Children(edge_rows, g) \cap labels = {}
    THEN "KeyError"
    ELSE IF \A g \in labels :
                Len(GenotypeRows(table, labels, edge_rows, g, cutoff)) = 0
    THEN "KeyError" ELSE "none"

PopFrame ==
    UNCHANGED <<edge_vars, check_vars, sort_vars, gen_vars, overlap_vars,
                   valid_vars, output_vars>>

\* generate_tables.generate_ggmuller_population_table(mean_genotypes, edges,
\* detection_cutoff)
generate_ggmuller_population_table ==
    /\ pop_pc = "ready"
    /\ LET labels == FilteredLabels(mean_genotypes, edges)
           raised == PopulationRaises(mean_genotypes, labels, edges,
                                      detection_cutoff)
       IN /\ pop_raised' = raised
          /\ population_table' =
               IF raised = "none"
               THEN PopulationRows(mean_genotypes, labels, edges,
                                   detection_cutoff)
               ELSE <<>>
    /\ pop_pc' = "done"
    /\ UNCHANGED <<mean_genotypes, edges, detection_cutoff>>
    /\ PopFrame

\* format_output.convert_population_to_ggmuller_format(mean_genotypes, edges)
convert_population_to_ggmuller_format ==
    /\ pop_pc = "ready"
    /\ LET labels == DOMAIN mean_genotypes
           raised == PopulationRaises(mean_genotypes, labels, edges,
                                      DETECTION_CUTOFF)
       IN /\ pop_raised' = raised
          /\ population_table' =
               IF raised = "none"
               THEN PopulationRows(mean_genotypes, labels, edges,
                                   DETECTION_CUTOFF)
               ELSE <<>>
    /\ pop_pc' = "done"
    /\ UNCHANGED <<mean_genotypes, edges, detection_cutoff>>
    /\ PopFrame

PopInit ==
    /\ mean_genotypes \in MeanTables
    /\ edges \in EdgeTablesOver(PopLabels)
    /\ detection_cutoff = DETECTION_CUTOFF
    /\ population_table = <<>>
    /\ pop_raised = "none"
    /\ pop_pc = "ready"

PopNext ==
    generate_ggmuller_population_table \/ convert_population_to_ggmuller_format

\* ------------------------------------------------------------------------
\* Genotype sorter: sort_genotypes.py
\* ------------------------------------------------------------------------

\* The rows (genotype labels) of the table handed to the sorter.
SortLabels == {1, 2}

\* Number of timepoint columns of the table handed to the sorter.
NSortTimepoints == 3

\* Mean frequencies (hundredths) a cell may hold: absent, detected,
\* significant, fixed.
SortGrid == {0, 10, 60, 95}

\* SortOptions.from_matlab(), in hundredths.
SortOptionsSet ==
    { [detection_breakpoint |-> 3, significant_breakpoint |-> 15,
       fixed_breakpoint |-> 85,
       frequency_breakpoints |-> <<90, 75, 60, 45, 30, 15, 0>>] }

\* The orders in which a set of labels can be the rows of a table.
RECURSIVE Orders(_)
Orders(S) ==
    IF S = {} THEN {<<>>}
    ELSE UNION {{<<x>> \o rest : rest \in Orders(S \ {x})} : x \in S}

\* The tables: rows in any order, ascending integer timepoint columns that
\* start at timepoint 0 or at timepoint 1.
SortTables ==
    [index : Orders(SortLabels),
     columns : {[i \in 1..NSortTimepoints |-> first + i - 1] : first \in {0, 1}},
     values : [SortLabels -> [1..NSortTimepoints -> SortGrid]]]

\* The key of a missing value (NaN): sorts after every timepoint label.
NAN_KEY == 1000

\* (series > cutoff).idxmax(): the label of the first timepoint above the
\* cutoff, and the first label of all when no timepoint is above it.
IdxMaxAbove(series, columns, cutoff) ==
    LET above == {i \in 1..Len(series) : series[i] > cutoff}
    IN IF above = {} THEN columns[1]
       ELSE columns[CHOOSE i \in above : \A j \in above : i <= j]

\* s.iloc[s.nonzero()] followed by the outer concat: a label of 0 becomes a
\* missing value.
ZeroToNaN(label) == IF label = 0 THEN NAN_KEY ELSE label

\* first_above_threshold.replace(0, 13)
ZeroTo13(label) == IF label = 0 THEN 13 ELSE label

LexLess(a, b) ==
    \E i \in 1..Len(a) :
        /\ a[i] < b[i]
        /\ \A j \in 1..(i - 1) : a[j] = b[j]

\* Stable sort of the sequence s by key[x], ascending.
RECURSIVE InsertByKey(_, _, _)
InsertByKey(x, s, key) ==
    IF Len(s) = 0 THEN <<x>>
    ELSE IF LexLess(key[x], key[s[1]]) THEN <<x>> \o s
    ELSE <<s[1]>> \o InsertByKey(x, Tail(s), key)

RECURSIVE StableSortByKey(_, _)
StableSortByKey(s, key) ==
    IF Len(s) = 0 THEN <<>>
    ELSE InsertByKey(s[Len(s)],
                     StableSortByKey(SubSeq(s, 1, Len(s) - 1), key), key)

\* The entries of s that are in S, in the order of s.
Restrict(s, S) == SelectIdx(s, [i \in 1..Len(s) |-> s[i] \in S], 1)

\* sort_genotype_frequencies(genotype_trajectories, frequency_breakpoint,
\* detection_cutoff, significant_cutuff, fixed_cutoff): the index of the
\* returned frame. `current` is the index of genotype_trajectories.
sort_genotype_frequencies(table, current, frequency_breakpoint, options) ==
    LET rows == Range(current)
        firstDetected == [g \in rows |->
            ZeroToNaN(IdxMaxAbove(table.values[g], table.columns,
                                  options.detection_breakpoint))]
        firstThreshold == [g \in rows |->
            ZeroTo13(IdxMaxAbove(table.values[g], table.columns,
                                 options.significant_breakpoint))]
        firstFixed == [g \in rows |->
            ZeroToNaN(IdxMaxAbove(table.values[g], table.columns,
                                  frequency_breakpoint))]
        \* df[~df['firstFixed'].isna()], then dropna() at the fixed tier
        df == {g \in rows :
                 /\ firstFixed[g] # NAN_KEY
                 /\ frequency_breakpoint = options.fixed_breakpoint
                        => firstDetected[g] # NAN_KEY}
        \* groupby() leaves out the rows with a missing key
        grouped == {g \in df : firstDetected[g] # NAN_KEY}
        groupKey == [g \in rows |->
                       <<firstFixed[g], firstDetected[g], firstThreshold[g]>>]
        sortKey == [g \in rows |-> <<firstDetected[g], firstThreshold[g]>>]
    IN IF grouped # {}
       THEN \* the groups in key order, each in the order of the table
            StableSortByKey(Restrict(current, grouped), groupKey)
       ELSE \* no group: sorted_frequencies itself, whose index the outer
            \* concat left in ascending label order
            StableSortByKey(Ascending(df), sortKey)

\* The tiers of sort_genotypes, in the order the loop takes them.
SortTierList(options) ==
    <<options.fixed_breakpoint>> \o options.frequency_breakpoints

\* The tier loop of sort_genotypes from tier k on: the list of the frames
\* appended, each with the position of its tier. An empty frame is not
\* appended; the genotypes of an appended frame leave the pool.
RECURSIVE SortTiers(_, _, _, _, _)
SortTiers(table, options, k, placed, current) ==
    IF k > Len(SortTierList(options)) THEN placed
    ELSE LET sorted_dataframe ==
                 sort_genotype_frequencies(table, current,
                                           SortTierList(options)[k], options)
         IN IF Len(sorted_dataframe) = 0
            THEN SortTiers(table, options, k + 1, placed, current)
            ELSE SortTiers(table, options, k + 1,
                     Append(placed, [tier |-> k, index |-> sorted_dataframe]),
                     Restrict(current,
                              Range(current) \ Range(sorted_dataframe)))

\* The list of frames at the end of the loop.
SortResult(table, options) == SortTiers(table, options, 1, <<>>, table.index)

\* sort_genotypes(genotype_frequencies, options); pandas.concat of an empty
\* list raises ValueError.
sort_genotypes ==
    /\ sort_pc = "ready"
    /\ LET frames == SortResult(genotype_frequencies, sort_options)
       IN /\ sorted_frames' = frames
          /\ IF Len(frames) = 0
             THEN sort_raised' = "ValueError" /\ sorted_genotypes' = <<>>
             ELSE /\ sort_raised' = "none"
                  /\ sorted_genotypes' =
                        Flatten([j \in 1..Len(frames) |-> frames[j].index])
    /\ sort_pc' = "done"
    /\ UNCHANGED <<genotype_frequencies, sort_options>>
    /\ UNCHANGED <<edge_vars, check_vars, pop_vars, gen_vars, overlap_vars,
                   valid_vars, output_vars>>

SortInit ==
    /\ genotype_frequencies \in SortTables
    /\ sort_options \in SortOptionsSet
    /\ sorted_frames = <<>>
    /\ sorted_genotypes = <<>>
    /\ sort_raised = "none"
    /\ sort_pc = "ready"

SortNext == sort_genotypes

\* ------------------------------------------------------------------------
\* Genotype generation: muller_genotypes/generate.py and
\* widgets.map_trajectories_to_genotype
\* ------------------------------------------------------------------------

\* Trajectory names are strings, kept as sequences of characters: "a", "ab"
\* and "b". IdOrder lists them in ascending string order.
IdOrder == << <<"a">>, <<"a", "b">>, <<"b">> >>

TrajectoryIds == Range(IdOrder)

SortedIds(S) == Restrict(IdOrder, S)

\* The index of the table handed to generate_genotypes: any rows, in
\* ascending order.
TrajectoryTables == {SortedIds(S) : S \in SUBSET TrajectoryIds}

\* options.method: the two methods of the code and one that is neither.
Methods == {"matlab", "hierarchy", "twostep"}

\* options.starting_genotypes: none, or one seed genotype of one or two rows
\* of the table.
StartingGenotypes(table) ==
    {<<>>} \cup {<<SortedIds(S)>> :
                   S \in {T \in SUBSET Range(table) : Cardinality(T) \in {1, 2}}}

GenotypeOptionsFor(table) ==
    {o \in [method : Methods, starting_genotypes : StartingGenotypes(table)] :
        o.method # "matlab" => o.starting_genotypes = <<>>}

\* ---- the pairwise cache
CacheKeys(cache) == {e[1] : e \in cache}

CacheIds(cache) == UNION CacheKeys(cache)

\* The p-values a pair calculation may hold, in hundredths.
PairPValues == {0, 100}

\* options.similarity_breakpoint (0.05).
SIMILARITY_BREAKPOINT == 5

\* Whether the cached p-value of an unordered pair meets the similarity
\* breakpoint.
Similar(cache, a, b) ==
    \E e \in cache : e[1] = {a, b} /\ e[2] >= SIMILARITY_BREAKPOINT

\* The items of the cache: a pair is found under either order of its two
\* trajectories.
CacheItems(cache) ==
    UNION {{<<ab, e[2]>> : ab \in {xy \in e[1] \X e[1] : xy[1] # xy[2]}} :
             e \in cache}

\* A variant of CacheBool with the truth value of a plain Python object.
CacheBoolAlwaysTrue(cache) == TRUE

\* bool(cache): the cache holds at least one calculation.
CacheBool(cache) == Cardinality(cache) > 0

NewPairs(cache, table) ==
    {pair \in SUBSET Range(table) : Cardinality(pair) = 2} \ CacheKeys(cache)

\* PAIRWISE_CALCULATIONS.update_values: every unordered pair of rows that is
\* not cached yet is computed and stored; entries already there are kept.
update_values(cache, table, metric) ==
    cache \cup {<<pair, metric[pair]>> : pair \in NewPairs(cache, table)}

\* ---- the two clustering methods
\* matlab_method: the trajectories in table order; one already in a genotype
\* is skipped, one similar to the first member of a genotype joins the
\* earliest such genotype, any other starts a genotype of its own.
RECURSIVE MatlabAssign(_, _, _)
MatlabAssign(rest, genotypes, cache) ==
    IF Len(rest) = 0 THEN genotypes
    ELSE LET t == rest[1]
             matches == {i \in 1..Len(genotypes) :
                           Similar(cache, t, genotypes[i][1])}
         IN IF \E i \in 1..Len(genotypes) : t \in Range(genotypes[i])
            THEN MatlabAssign(Tail(rest), genotypes, cache)
            ELSE IF matches = {}
            THEN MatlabAssign(Tail(rest), Append(genotypes, <<t>>), cache)
            ELSE MatlabAssign(Tail(rest),
                     [genotypes EXCEPT
                        ![CHOOSE i \in matches : \A j \in matches : i <= j] =
                            Append(@, t)],
                     cache)

matlab_method(table, cache, starting_genotypes) ==
    MatlabAssign(table, starting_genotypes, cache)

\* The trajectories linked to those of C through similar pairs.
RECURSIVE Linked(_, _)
Linked(C, cache) ==
    LET next == C \cup {y \in CacheIds(cache) :
                          \E x \in C : x # y /\ Similar(cache, x, y)}
    IN IF next = C THEN C ELSE Linked(next, cache)

RECURSIVE ClustersFrom(_, _, _)
ClustersFrom(order, seen, cache) ==
    IF Len(order) = 0 THEN <<>>
    ELSE IF order[1] \in seen THEN ClustersFrom(Tail(order), seen, cache)
    ELSE LET cluster == Linked({order[1]}, cache)
         IN <<SortedIds(cluster)>>
                \o ClustersFrom(Tail(order), seen \cup cluster, cache)

\* hierarchical_method: the flat clusters of the trajectories of the cache.
hierarchical_method(cache) ==
    ClustersFrom(SortedIds(CacheIds(cache)), {}, cache)

\* The distance matrix needs at least one pair, and every pair of the
\* trajectories it covers.
HierarchicalRaises(cache) ==
    IF cache = {} THEN "ValueError"
    ELSE IF \E a, b \in CacheIds(cache) : a # b /\ {a, b} \notin CacheKeys(cache)
    THEN "KeyError"
    ELSE "none"

NoGenotypes == [raised |-> "none", genotypes |-> <<>>, linkage_matrix |-> "None"]

\* A variant of Clustering that falls back on the matlab method.
ClusteringDefaultsToMatlab(table, cache, opts) ==
    IF opts.method = "hierarchy"
    THEN IF HierarchicalRaises(cache) # "none"
         THEN [NoGenotypes EXCEPT !.raised = HierarchicalRaises(cache)]
         ELSE [NoGenotypes EXCEPT !.genotypes = hierarchical_method(cache),
                                  !.linkage_matrix = "linkage"]
    ELSE [NoGenotypes EXCEPT
            !.genotypes = matlab_method(table, cache, opts.starting_genotypes)]

\* generate_genotypes, the choice of the method.
Clustering(table, cache, opts) ==
    IF opts.method = "matlab"
    THEN [NoGenotypes EXCEPT
            !.genotypes = matlab_method(table, cache, opts.starting_genotypes)]
    ELSE IF opts.method = "hierarchy"
    THEN IF HierarchicalRaises(cache) # "none"
         THEN [NoGenotypes EXCEPT !.raised = HierarchicalRaises(cache)]
         ELSE [NoGenotypes EXCEPT !.genotypes = hierarchical_method(cache),
                                  !.linkage_matrix = "linkage"]
    ELSE [NoGenotypes EXCEPT !.raised = "ValueError"]

\* ---- mean genotypes and member lists
\* '|'.join(members)
RECURSIVE Join(_, _)
Join(ids, sep) ==
    IF Len(ids) = 0 THEN <<>>
    ELSE IF Len(ids) = 1 THEN ids[1]
    ELSE ids[1] \o <<sep>> \o Join(Tail(ids), sep)

\* calculate_mean_genotype: a genotype none of whose members is a row of the
\* table has no mean.
MeanGenotypeRaises(genotypes, table) ==
    IF \E i \in 1..Len(genotypes) : Range(genotypes[i]) \cap Range(table) = {}
    THEN "KeyError"
    ELSE "none"

\* The timepoints of a trajectory table; its columns come in any order.
GenTimepoints == {0, 1}

TimepointColumns == Orders(GenTimepoints)

\* The label of the 'members' column.
MEMBERS_COLUMN == -1

\* The columns of the frame calculate_mean_genotype returns: those of the
\* table, in its order, and the members.
MeanGenotypeColumns(columns) == Append(columns, MEMBERS_COLUMN)

\* _mean_genotypes.pop('members')
PopMembers(columns) == Restrict(columns, Range(columns) \ {MEMBERS_COLUMN})

\* A variant of SortedColumns that keeps the order of the frame.
SortedColumnsKeepsOrder(columns) == columns

\* sorted(_mean_genotypes.columns)
SortedColumns(columns) == Ascending(Range(columns))

\* Nothing handed back to the caller.
NoResult ==
    [mean_genotypes |-> <<>>, columns |-> <<>>, genotype_members |-> <<>>,
     linkage_matrix |-> "nothing"]

\* No p-value matrix built.
NoMatrix == [index |-> <<>>, cells |-> <<>>]

\* generate_genotypes after update_values: <<exception, returned triple>>.
\* The genotype of row i of the mean table is "genotype-i".
GenerateOutcome(table, columns, cache, opts) ==
    LET c == Clustering(table, cache, opts)
        raised ==
            IF c.raised # "none" THEN c.raised
            ELSE IF MeanGenotypeRaises(c.genotypes, table) # "none"
            THEN MeanGenotypeRaises(c.genotypes, table)
            ELSE IF Len(c.genotypes) = 0 THEN "KeyError"  \* pop('members')
            ELSE "none"
    IN IF raised # "none" THEN [raised |-> raised, result |-> NoResult]
       ELSE [raised |-> "none",
             result |->
                [mean_genotypes |-> [i \in 1..Len(c.genotypes) |-> i],
                 columns |->
                    SortedColumns(PopMembers(MeanGenotypeColumns(columns))),
                 genotype_members |->
                    [i \in 1..Len(c.genotypes) |-> Join(c.genotypes[i], "|")],
                 linkage_matrix |-> c.linkage_matrix]]

generate_genotypes ==
    /\ gen_pc # "idle"
    /\ \E table \in TrajectoryTables, columns \in TimepointColumns :
         \E opts \in GenotypeOptionsFor(table) :
           \E metric \in [NewPairs(PAIRWISE_CALCULATIONS, table) -> PairPValues] :
             LET cache == update_values(PAIRWISE_CALCULATIONS, table, metric)
                 outcome == GenerateOutcome(table, columns, cache, opts)
             IN /\ PAIRWISE_CALCULATIONS' = cache
                /\ timepoints' = table
                /\ timepoint_columns' = columns
                /\ genotype_options' = opts
                /\ gen_raised' = outcome.raised
                /\ gen_result' = outcome.result
                /\ gen_pc' = IF outcome.raised = "none" THEN "returned"
                             ELSE "raised"
    /\ trajectory_to_genotype' = {}
    /\ p_value_matrix' = NoMatrix
    /\ matrix_pc' = "unset"
    /\ UNCHANGED <<edge_vars, check_vars, pop_vars, sort_vars, overlap_vars,
                   valid_vars, output_vars>>

\* A variant of Split that keeps the string whole.
SplitKeepsWhole(s, sep) == <<s>>

\* str.split(sep) for a one-character separator.
RECURSIVE SplitFrom(_, _, _)
SplitFrom(s, sep, piece) ==
    IF Len(s) = 0 THEN <<piece>>
    ELSE IF s[1] = sep THEN <<piece>> \o SplitFrom(Tail(s), sep, <<>>)
    ELSE SplitFrom(Tail(s), sep, Append(piece, s[1]))

Split(s, sep) == SplitFrom(s, sep, <<>>)

\* widgets.map_trajectories_to_genotype: the dictionary as a set of
\* <<member, genotype>>; a later genotype overwrites an earlier one.
MapTrajectories(genotype_members) ==
    LET pieces == [i \in 1..Len(genotype_members) |->
                     Range(Split(genotype_members[i], "|"))]
        keys == UNION {pieces[i] : i \in 1..Len(genotype_members)}
    IN {<<k, MaxOf({i \in 1..Len(genotype_members) : k \in pieces[i]})>> :
          k \in keys}

map_trajectories_to_genotype ==
    /\ gen_pc = "returned"
    /\ trajectory_to_genotype' = MapTrajectories(gen_result.genotype_members)
    /\ gen_pc' = "mapped"
    /\ UNCHANGED <<PAIRWISE_CALCULATIONS, timepoints, timepoint_columns,
                   genotype_options, gen_result, gen_raised, p_value_matrix,
                   matrix_pc>>
    /\ UNCHANGED <<edge_vars, check_vars, pop_vars, sort_vars, overlap_vars,
                   valid_vars, output_vars>>

\* ---- the p-value matrix (muller_output/generate_tables.py)
IdRank(id) == CHOOSE i \in 1..Len(IdOrder) : IdOrder[i] = id

\* trajectory_genotypes.get(s, 'zzz'): a trajectory without a genotype sorts
\* after every "genotype-n".
GenotypeOrZzz(trajectory_genotypes, s) ==
    IF \E e \in trajectory_genotypes : e[1] = s
    THEN (CHOOSE e \in trajectory_genotypes : e[1] = s)[2]
    ELSE NAN_KEY

\* The mark of a cell whose lookup raised KeyError.
KEY_ERROR == -2

\* One cell of the matrix: nan on the diagonal, p_values[column, index]
\* elsewhere, KEY_ERROR when the dictionary has no such key.
MatrixCell(p_values, index, column) ==
    IF column = index THEN NAN
    ELSE IF \E i \in p_values : i[1] = <<column, index>>
    THEN (CHOOSE i \in p_values : i[1] = <<column, index>>)[2]
    ELSE KEY_ERROR

\* generate_p_value_matrix(p_values, trajectory_genotypes), p_values being
\* the items of the mapping it is given.
PValueMatrix(p_values, trajectory_genotypes) ==
    LET ids == UNION {{i[1][1], i[1][2]} : i \in p_values}
        all_ids == StableSortByKey(SortedIds(ids),
                      [s \in ids |->
                         <<GenotypeOrZzz(trajectory_genotypes, s), IdRank(s)>>])
    IN [index |-> all_ids,
        cells |-> [rc \in ids \X ids |-> MatrixCell(p_values, rc[1], rc[2])]]

generate_p_value_matrix ==
    /\ gen_pc = "mapped"
    /\ matrix_pc = "unset"
    /\ LET matrix == PValueMatrix(CacheItems(PAIRWISE_CALCULATIONS),
                                  trajectory_to_genotype)
       IN IF \E rc \in DOMAIN matrix.cells : matrix.cells[rc] = KEY_ERROR
          THEN p_value_matrix' = NoMatrix /\ matrix_pc' = "KeyError"
          ELSE p_value_matrix' = matrix /\ matrix_pc' = "done"
    /\ UNCHANGED <<PAIRWISE_CALCULATIONS, timepoints, timepoint_columns,
                   genotype_options, gen_result, gen_raised,
                   trajectory_to_genotype, gen_pc>>
    /\ UNCHANGED <<edge_vars, check_vars, pop_vars, sort_vars, overlap_vars,
                   valid_vars, output_vars>>

GenInit ==
    /\ PAIRWISE_CALCULATIONS = {}
    /\ timepoints = <<>>
    /\ timepoint_columns = <<>>
    /\ genotype_options = [method |-> "matlab", starting_genotypes |-> <<>>]
    /\ gen_result = NoResult
    /\ gen_raised = "none"
    /\ trajectory_to_genotype = {}
    /\ gen_pc = "ready"
    /\ p_value_matrix = NoMatrix
    /\ matrix_pc = "unset"

GenNext ==
    \/ generate_genotypes
    \/ map_trajectories_to_genotype
    \/ generate_p_value_matrix

\* ------------------------------------------------------------------------
\* Fixed overlap metric: clustering.metrics.distance_calculator
\* ------------------------------------------------------------------------

\* Length of the two series.
OverlapLen == 3

\* The values of a series: absent, exactly at the fixed cutoff, fixed.
OverlapGrid == {0, 97, 100}

\* The timepoints (positions) at which a series exceeds the cutoff.
FixedAt(series, fixed_cutoff) ==
    {i \in 1..Len(series) : series[i] > fixed_cutoff}

\* A variant of FixedOverlapValue that takes any shared fixed timepoint for
\* a full overlap.
FixedOverlapAnyShared(l, r, fixed_cutoff) ==
    IF FixedAt(l, fixed_cutoff) = {} /\ FixedAt(r, fixed_cutoff) = {} THEN NAN
    ELSE IF FixedAt(l, fixed_cutoff) \cap FixedAt(r, fixed_cutoff) # {} THEN 0
    ELSE 1

\* fixed_overlap(left, right, fixed_cutoff): 0 when the two series are fixed
\* at the same timepoints, 1 when they are not, nan when neither is ever
\* fixed.
FixedOverlapValue(l, r, fixed_cutoff) ==
    IF FixedAt(l, fixed_cutoff) = {} /\ FixedAt(r, fixed_cutoff) = {} THEN NAN
    ELSE IF FixedAt(l, fixed_cutoff) = FixedAt(r, fixed_cutoff) THEN 0
    ELSE 1

\* The cutoff the test passes (0.97).
OVERLAP_CUTOFF == 97

fixed_overlap ==
    /\ overlap_pc = "ready"
    /\ overlap_result' =
          FixedOverlapValue(overlap_left, overlap_right, OVERLAP_CUTOFF)
    /\ overlap_pc' = "done"
    /\ UNCHANGED <<overlap_left, overlap_right>>
    /\ UNCHANGED <<edge_vars, check_vars, pop_vars, sort_vars, gen_vars,
                   valid_vars, output_vars>>

OverlapInit ==
    /\ overlap_left \in [1..OverlapLen -> OverlapGrid]
    /\ overlap_right \in [1..OverlapLen -> OverlapGrid]
    /\ overlap_result = NAN
    /\ overlap_pc = "ready"

OverlapNext == fixed_overlap

\* ------------------------------------------------------------------------
\* Specifications
\* ------------------------------------------------------------------------

\* Each specification runs one component; the others stay idle.
\* ------------------------------------------------------------------------
\* Valid points of a pair: widgets.get_valid_points
\* ------------------------------------------------------------------------

\* Number of timepoints of a trajectory handed to get_valid_points.
ValidLen == 3

\* Frequencies (hundredths) a trajectory may hold: absent, half, fixed.
ValidGrid == {0, 50, 98}

\* flimit = None, the default.
FLIMIT_NONE == -1

\* The arguments the function is called with.
ValidArguments ==
    [dlimit : {3}, flimit : {FLIMIT_NONE, 30, 97, 99}, inner : BOOLEAN]

\* The literal the masking compares with: 0.97.
MASK_CUTOFF == 97

\* The series with its values above 0.97 replaced by -1 when flimit is
\* given, the series itself otherwise.
MaskedSeries(series, flimit) ==
    IF flimit # FLIMIT_NONE
    THEN [i \in 1..Len(series) |->
             IF series[i] > MASK_CUTOFF THEN -1 ELSE series[i]]
    ELSE series

\* The list at_least_one_detected: per timepoint, whether both (inner) or at
\* least one of the masked values exceeds dlimit.
AtLeastOneDetected(l, r, dlimit, inner) ==
    [i \in 1..Len(l) |->
        IF inner THEN l[i] > dlimit /\ r[i] > dlimit
        ELSE l[i] > dlimit \/ r[i] > dlimit]

MinOf(S) == CHOOSE x \in S : \A y \in S : x <= y

\* get_valid_points(left_trajectory, right_trajectory, dlimit, flimit,
\* inner): the slice of the two series from the first to the last timepoint
\* marked in at_least_one_detected, both included; empty when none is.
\* Positions are counted from 1; the index label of position p is p - 1.
GetValidPoints(l, r, dlimit, flimit, inner) ==
    LET detected == AtLeastOneDetected(MaskedSeries(l, flimit),
                                       MaskedSeries(r, flimit), dlimit, inner)
        reduced == {i \in 1..Len(l) : detected[i]}
        first == IF reduced = {} THEN 1 ELSE MinOf(reduced)
        last == IF reduced = {} THEN 0 ELSE MaxOf(reduced)
    IN [at_least_one_detected |-> detected,
        result_left |-> SubSeq(l, first, last),
        result_right |-> SubSeq(r, first, last),
        index |-> [k \in 1..(last - first + 1) |-> first + k - 1]]

NoValidResult == [result_left |-> <<>>, result_right |-> <<>>, index |-> <<>>]

get_valid_points ==
    /\ valid_pc = "ready"
    /\ LET out == GetValidPoints(left_trajectory, right_trajectory,
                                 valid_arguments.dlimit,
                                 valid_arguments.flimit,
                                 valid_arguments.inner)
       IN /\ at_least_one_detected' = out.at_least_one_detected
          /\ valid_result' = [result_left |-> out.result_left,
                              result_right |-> out.result_right,
                              index |-> out.index]
    /\ valid_pc' = "done"
    /\ UNCHANGED <<left_trajectory, right_trajectory, valid_arguments>>
    /\ UNCHANGED <<edge_vars, check_vars, pop_vars, sort_vars, gen_vars,
                   overlap_vars, output_vars>>

ValidInit ==
    /\ left_trajectory \in [1..ValidLen -> ValidGrid]
    /\ right_trajectory \in [1..ValidLen -> ValidGrid]
    /\ valid_arguments \in ValidArguments
    /\ at_least_one_detected = <<>>
    /\ valid_result = NoValidResult
    /\ valid_pc = "ready"

ValidNext == get_valid_points

\* ------------------------------------------------------------------------
\* Output tables: format_output.generate_formatted_output / save_output
\* ------------------------------------------------------------------------

\* The trajectories of the workflow.
OutputIds == {<<"a">>, <<"b">>}

\* The genotypes of the workflow: which trajectories each one holds.
OutputGenotypes ==
    {<< {<<"a">>, <<"b">>} >>,
     << {<<"a">>}, {<<"b">>} >>,
     << {<<"b">>}, {<<"a">>} >>}

\* Mean frequencies (hundredths) of the genotype table of the workflow.
OutputGrid == {4, 50}

\* The name of a timepoint column.
TimepointName(t) == ToString(t)

TimepointNames == [t \in Generations |-> TimepointName(t)]

\* The genotype table: one row per genotype, the timepoint columns and the
\* members column, the members joined with '|'.
GenotypeTables(genotypes) ==
    {[index |-> [g \in 1..Len(genotypes) |-> g],
      columns |-> Append(TimepointNames, "members"),
      members |-> [g \in 1..Len(genotypes) |->
                      Join(SortedIds(genotypes[g]), "|")],
      values |-> v] :
        v \in [1..Len(genotypes) -> [Generations -> OutputGrid]]}

\* The trajectory table: its rows in some order, the timepoint columns.
TrajectoryFrames ==
    {[index |-> order, columns |-> TimepointNames, genotype |-> {}] :
        order \in Orders(OutputIds)}

\* The info table (None, or one annotation column per trajectory).
InfoTables ==
    {[present |-> FALSE, columns |-> <<>>],
     [present |-> TRUE, columns |-> <<"annotation">>]}

WorkflowDatas ==
    UNION {[info : InfoTables,
            trajectories : TrajectoryFrames,
            genotypes : GenotypeTables(genotypes),
            clusters : ClustersOver(1..Len(genotypes), 1..Len(genotypes))] :
              genotypes \in OutputGenotypes}

\* color_map of generate_output: a colour per genotype of the table, and one
\* for genotype-0.
ColorMap(data) ==
    [k \in Range(data.genotypes.index) \cup {ROOT} |-> "#333333"]

\* {member: genotype for each genotype for each member of members.split('|')}
\* as a set of <<member, genotype>>; a later genotype overwrites an earlier.
MemberMap(genotypes) == MapTrajectories(genotypes.members)

HasKey(map, k) == \E e \in map : e[1] = k

Lookup(map, k) == (CHOOSE e \in map : e[1] = k)[2]

\* generate_mermaid_diagram(backgrounds, color_palette): raises KeyError for
\* an Identity without a colour; else the edge lines, then the style lines.
MermaidRaises(backgrounds, palette) ==
    IF \E i \in 1..Len(backgrounds) :
          backgrounds[i].Identity \notin DOMAIN palette
    THEN "KeyError" ELSE "none"

generate_mermaid_diagram(backgrounds, palette) ==
    [lines |-> [i \in 1..Len(backgrounds) |->
                   <<backgrounds[i].Identity, backgrounds[i].Parent>>],
     styles |-> {backgrounds[i].Identity : i \in 1..Len(backgrounds)}]

\* A column appended to a frame unless the frame already has it.
WithColumn(columns, name) ==
    IF name \in Range(columns) THEN columns ELSE Append(columns, name)

\* The trajectory table generate_formatted_output builds when info is given:
\* a copy with the genotype column, joined with info, sorted by genotype
\* (rows of one genotype keep their order).
AnnotatedTrajectories(data) ==
    LET map == MemberMap(data.genotypes)
        table == data.trajectories
    IN [index |-> StableSortByKey(table.index,
                      [k \in Range(table.index) |-> <<Lookup(map, k)>>]),
        columns |-> WithColumn(table.columns, "genotype")
                       \o data.info.columns,
        genotype |-> {<<k, Lookup(map, k)>> : k \in Range(table.index)}]

\* The first exception generate_formatted_output raises, if any.
FormattedOutputRaises(data, palette) ==
    LET edge_error == EdgeRaises(data.clusters)
        edge_rows == EdgeRows(data.clusters)
        labels == DOMAIN data.genotypes.values
    IN IF edge_error # "none" THEN edge_error
       ELSE IF PopulationRaises(data.genotypes.values, labels, edge_rows,
                                DETECTION_CUTOFF) # "none"
       THEN "KeyError"
       ELSE IF MermaidRaises(edge_rows, palette) # "none" THEN "KeyError"
       ELSE IF data.info.present
               /\ \E k \in Range(data.trajectories.index) :
                     ~HasKey(MemberMap(data.genotypes), k)
       THEN "KeyError"
       ELSE "none"

NoFormattedOutput ==
    [population |-> <<>>, edges |-> <<>>,
     mermaid |-> [lines |-> <<>>, styles |-> {}]]

\* The tuple generate_formatted_output returns (the workflow parameters are
\* left out).
FormattedOutput(data, palette) ==
    LET edge_rows == EdgeRows(data.clusters)
    IN [population |->
           PopulationRows(data.genotypes.values,
                          DOMAIN data.genotypes.values, edge_rows,
                          DETECTION_CUTOFF),
        edges |-> edge_rows,
        mermaid |-> generate_mermaid_diagram(edge_rows, palette)]

OutputFrame ==
    UNCHANGED <<edge_vars, check_vars, pop_vars, sort_vars, gen_vars,
                overlap_vars, valid_vars>>

\* generate_formatted_output(workflow_data, color_palette)
generate_formatted_output ==
    /\ output_pc = "ready"
    /\ LET raised == FormattedOutputRaises(workflow_data, color_palette)
       IN /\ output_raised' = raised
          /\ IF raised # "none"
             THEN /\ output_pc' = "raised"
                  /\ UNCHANGED <<workflow_data, formatted_output>>
             ELSE /\ output_pc' = "formatted"
                  /\ formatted_output' =
                        FormattedOutput(workflow_data, color_palette)
                  /\ workflow_data' =
                        IF workflow_data.info.present
                        THEN [workflow_data EXCEPT !.trajectories =
                                 AnnotatedTrajectories(workflow_data)]
                        ELSE workflow_data
    /\ UNCHANGED <<color_palette, saved_files>>
    /\ OutputFrame

\* The files save_output writes before it touches the trajectory table.
FilesBeforeTrajectories ==
    {"pvalues.yaml", "ggmuller.populations.tsv", "ggmuller.edges.tsv",
     "genotypes.original.tsv", "genotypes.tsv", "trajectories.original.tsv"}

\* The files it writes from the trajectory table on.
FilesFromTrajectories ==
    {"trajectories.tsv", "filtered.png", "mermaid.md", "r", "muller.tsv"}

\* save_output(workflow_data, population_table, edge_table, ...): writes the
\* tables and sets the genotype column of workflow_data.trajectories in
\* place; KeyError for a trajectory that is in no genotype.
save_output ==
    /\ output_pc = "formatted"
    /\ LET map == MemberMap(workflow_data.genotypes)
           table == workflow_data.trajectories
       IN IF \E k \in Range(table.index) : ~HasKey(map, k)
          THEN /\ output_raised' = "KeyError"
               /\ output_pc' = "raised"
               /\ saved_files' = FilesBeforeTrajectories
               /\ UNCHANGED workflow_data
          ELSE /\ output_raised' = "none"
               /\ output_pc' = "saved"
               /\ saved_files' =
                     FilesBeforeTrajectories \cup FilesFromTrajectories
               /\ workflow_data' =
                     [workflow_data EXCEPT !.trajectories =
                        [index |-> table.index,
                         columns |-> WithColumn(table.columns, "genotype"),
                         genotype |-> {<<k, Lookup(map, k)>> :
                                          k \in Range(table.index)}]]
    /\ UNCHANGED <<color_palette, formatted_output>>
    /\ OutputFrame

OutputInit ==
    /\ workflow_data \in WorkflowDatas
    /\ color_palette = ColorMap(workflow_data)
    /\ formatted_output = NoFormattedOutput
    /\ saved_files = {}
    /\ output_raised = "none"
    /\ output_pc = "ready"

OutputNext == generate_formatted_output \/ save_output

EdgeIdle ==
    /\ genotype_clusters = <<>>
    /\ edge_table = <<>>
    /\ edge_raised = "none"
    /\ edge_pc = "idle"

CheckIdle ==
    /\ left = <<>>
    /\ right = <<>>
    /\ additive_check = "idle"
    /\ subtractive_check = "idle"
    /\ check_options = [additive_background_double_cutoff |-> 103,
                        additive_background_single_cutoff |-> 115,
                        subtractive_background_double_cutoff |-> -2,
                        subtractive_background_single_cutoff |-> -15,
                        derivative_detection_cutoff |-> 3]
    /\ points_dlimit = CHECKS_DLIMIT
    /\ detected_points = <<>>
    /\ derivative_check = FloatNone
    /\ genotype_checks = NoGenotypeChecks
    /\ checks_table = <<>>
    /\ checks_pc = "idle"

PopIdle ==
    /\ mean_genotypes = <<>>
    /\ edges = <<>>
    /\ detection_cutoff = DETECTION_CUTOFF
    /\ population_table = <<>>
    /\ pop_raised = "none"
    /\ pop_pc = "idle"

SortIdle ==
    /\ genotype_frequencies = <<>>
    /\ sort_options = <<>>
    /\ sorted_frames = <<>>
    /\ sorted_genotypes = <<>>
    /\ sort_raised = "none"
    /\ sort_pc = "idle"

GenIdle ==
    /\ PAIRWISE_CALCULATIONS = {}
    /\ timepoints = <<>>
    /\ timepoint_columns = <<>>
    /\ genotype_options = [method |-> "matlab", starting_genotypes |-> <<>>]
    /\ gen_result = NoResult
    /\ gen_raised = "none"
    /\ trajectory_to_genotype = {}
    /\ gen_pc = "idle"
    /\ p_value_matrix = NoMatrix
    /\ matrix_pc = "unset"

OverlapIdle ==
    /\ overlap_left = <<>>
    /\ overlap_right = <<>>
    /\ overlap_result = NAN
    /\ overlap_pc = "idle"

ValidIdle ==
    /\ left_trajectory = <<>>
    /\ right_trajectory = <<>>
    /\ valid_arguments = [dlimit |-> 3, flimit |-> FLIMIT_NONE, inner |-> FALSE]
    /\ at_least_one_detected = <<>>
    /\ valid_result = NoValidResult
    /\ valid_pc = "idle"

OutputIdle ==
    /\ workflow_data = <<>>
    /\ color_palette = <<>>
    /\ formatted_output = NoFormattedOutput
    /\ saved_files = {}
    /\ output_raised = "none"
    /\ output_pc = "idle"

InitEdges ==
    EdgeInit /\ CheckIdle /\ PopIdle /\ SortIdle /\ GenIdle
    /\ OverlapIdle /\ ValidIdle /\ OutputIdle

SpecEdges == InitEdges /\ [][EdgeNext]_vars

InitChecks ==
    CheckInit /\ EdgeIdle /\ PopIdle /\ SortIdle /\ GenIdle
    /\ OverlapIdle /\ ValidIdle /\ OutputIdle

InitPop ==
    PopInit /\ EdgeIdle /\ CheckIdle /\ SortIdle /\ GenIdle
    /\ OverlapIdle /\ ValidIdle /\ OutputIdle

InitSort ==
    SortInit /\ EdgeIdle /\ CheckIdle /\ PopIdle /\ GenIdle
    /\ OverlapIdle /\ ValidIdle /\ OutputIdle

SpecSort == InitSort /\ [][SortNext]_vars

InitGen ==
    GenInit /\ EdgeIdle /\ CheckIdle /\ PopIdle /\ SortIdle
    /\ OverlapIdle /\ ValidIdle /\ OutputIdle

SpecGen == InitGen /\ [][GenNext]_vars

InitOverlap ==
    OverlapInit /\ EdgeIdle /\ CheckIdle /\ PopIdle /\ SortIdle /\ GenIdle
    /\ ValidIdle /\ OutputIdle

SpecOverlap == InitOverlap /\ [][OverlapNext]_vars

InitValid ==
    ValidInit /\ EdgeIdle /\ CheckIdle /\ PopIdle /\ SortIdle /\ GenIdle
    /\ OverlapIdle /\ OutputIdle

SpecValid == InitValid /\ [][ValidNext]_vars

InitOutput ==
    OutputInit /\ EdgeIdle /\ CheckIdle /\ PopIdle /\ SortIdle /\ GenIdle
    /\ OverlapIdle /\ ValidIdle

SpecOutput == InitOutput /\ [][OutputNext]_vars

SpecPop == InitPop /\ [][PopNext]_vars

SpecChecks == InitChecks /\ [][CheckNext]_vars

\* ------------------------------------------------------------------------
\* Claims about the edge table (checked under SpecEdges)
\* ------------------------------------------------------------------------

EdgeReturned == edge_pc = "done" /\ edge_raised = "none"

HasRow(table, g) == \E i \in 1..Len(table) : table[i].Identity = g

ParentIn(table, g) ==
    table[CHOOSE i \in 1..Len(table) : table[i].Identity = g].Parent

\* Following Parent from g reaches genotype-0 within `steps` steps.
RECURSIVE ReachesRoot(_, _, _)
ReachesRoot(table, g, steps) ==
    IF g = ROOT THEN TRUE
    ELSE IF steps = 0 \/ ~HasRow(table, g) THEN FALSE
    ELSE ReachesRoot(table, ParentIn(table, g), steps - 1)

\* C2 (as claimed): in the edge table built from any set of genotype
\* clusters, following the Parent pointer from every genotype reaches
\* genotype-0 within |genotypes| steps: no parent chain cycles.
C2_LineageAcyclic ==
    EdgeReturned =>
        \A i \in 1..Len(edge_table) :
            ReachesRoot(edge_table, edge_table[i].Identity, Len(edge_table))

\* A genotype whose background list names no other genotype: the list is
\* empty or holds only the genotype itself.
NamesNoOther(genotype_info) ==
    Range(genotype_info.background) \subseteq {genotype_info.name}

\* C7 (as claimed): when a genotype's background list names no other
\* genotype (an empty list included), the builder does not fail and gives
\* the genotype a row with Parent = genotype-0; no genotype of the clusters
\* is left without an edge row.
C7_RootFallback ==
    edge_pc = "done" =>
        /\ (\E i \in 1..Len(genotype_clusters) :
                NamesNoOther(genotype_clusters[i])) => edge_raised = "none"
        /\ \A i \in 1..Len(genotype_clusters) :
             /\ HasRow(edge_table, genotype_clusters[i].name)
             /\ NamesNoOther(genotype_clusters[i]) =>
                    ParentIn(edge_table, genotype_clusters[i].name) = ROOT

\* C8: a returned edge table has exactly one row per genotype of the
\* clusters, Identity = the genotype id, Parent = the first entry of its
\* background list, except Parent = genotype-0 when the list has length 1
\* or its first entry is the genotype itself; no row has Parent = Identity.
C8_EdgeTableRows ==
    EdgeReturned =>
        /\ Len(edge_table) = Len(genotype_clusters)
        /\ \A i \in 1..Len(genotype_clusters) :
             LET g == genotype_clusters[i]
                 row == edge_table[i]
             IN /\ row.Identity = g.name
                /\ Cardinality({j \in 1..Len(edge_table) :
                        edge_table[j].Identity = g.name}) = 1
                /\ row.Parent # row.Identity
                /\ (Len(g.background) = 1 \/ g.background[1] = g.name)
                        => row.Parent = ROOT
                /\ (Len(g.background) # 1 /\ g.background[1] # g.name)
                        => row.Parent = g.background[1]

\* C8 witness: a returned table with a row sent to genotype-0 because its
\* inferred parent is the genotype itself, a row sent there because the
\* list has length 1, and a row that keeps its inferred parent.
C8_Witness ==
    /\ EdgeReturned
    /\ \E i \in 1..Len(genotype_clusters) :
         /\ Len(genotype_clusters[i].background) = 2
         /\ genotype_clusters[i].background[1] = genotype_clusters[i].name
         /\ edge_table[i].Parent = ROOT
    /\ \E i \in 1..Len(genotype_clusters) :
         /\ Len(genotype_clusters[i].background) = 1
         /\ genotype_clusters[i].background[1] # genotype_clusters[i].name
         /\ edge_table[i].Parent = ROOT
    /\ \E i \in 1..Len(edge_table) : edge_table[i].Parent # ROOT

\* ------------------------------------------------------------------------
\* Claims about the background checks (checked under SpecChecks)
\* ------------------------------------------------------------------------

\* The pair has at least one detected timepoint.
SomeDetected == Len(get_detected_points(left, right, CHECKS_DLIMIT)) > 0

\* The sum over the detected timepoints is significantly over 1: the mean
\* of the sums is above 1 and the one-tailed p-value is at most 0.05.
SignificantlyOverOne ==
    /\ SomeDetected
    /\ AdditiveTest(left, right).sign > 0
    /\ PLeq05(HalfPValue(AdditiveTest(left, right).pvalue))

\* C9 (as claimed, for the pairs that have a detected timepoint; the pairs
\* without one are C10's): check_additive_background returns True unless
\* the elementwise sum over the detected timepoints is significantly over
\* 1, so it returns True when the sum is significantly below 1.
C9_AdditiveTrueUnlessOver ==
    (additive_check # "unset" /\ SomeDetected /\ ~SignificantlyOverOne)
        => additive_check = "True"

\* C10 (as claimed): when the pair has no detected timepoint the neutral
\* (0, 0) result counts as not significant: the additive check returns True
\* and the subtractive check returns True.
C10_EmptyOverlapNeutral ==
    ~SomeDetected =>
        /\ additive_check \in {"unset", "True"}
        /\ subtractive_check \in {"unset", "True"}

\* C11: the additive check and the subtractive check are symmetric: what a
\* check returned for (left, right) is what it returns for (right, left).
C11_ChecksSymmetric ==
    /\ additive_check # "unset" =>
         additive_check =
            PyBool(CheckAdditive(right, left,
                       check_options.additive_background_double_cutoff,
                       check_options.additive_background_single_cutoff))
    /\ subtractive_check # "unset" =>
         subtractive_check =
            PyBool(CheckSubtractive(right, left,
                       check_options.subtractive_background_double_cutoff,
                       check_options.subtractive_background_single_cutoff))

\* C11 witness: both checks have returned for two different series, one of
\* which alone is detected at some timepoint, and they returned different
\* values.
C11_Witness ==
    /\ left # right
    /\ \E i \in 1..NSeries : left[i] < CHECKS_DLIMIT /\ right[i] >= CHECKS_DLIMIT
    /\ additive_check = "True"
    /\ subtractive_check = "False"

\* ------------------------------------------------------------------------
\* Claims about the population table (checked under SpecPop)
\* ------------------------------------------------------------------------

PopReturned == pop_pc = "done" /\ pop_raised = "none"

\* The generations that have a row of a genotype other than genotype-0.
NonRootGenerations ==
    {population_table[i].Generation :
        i \in {j \in 1..Len(population_table) :
                  population_table[j].Identity # ROOT}}

\* The sum of Population at a generation over the rows that satisfy `pick`.
PopSum(generation, pick(_)) ==
    SumSeq(SelectIdx(
        [i \in 1..Len(population_table) |-> population_table[i].Population],
        [i \in 1..Len(population_table) |->
            population_table[i].Generation = generation
            /\ pick(population_table[i].Identity)],
        1))

NonRootSum(generation) == PopSum(generation, LAMBDA id : id # ROOT)

TotalSum(generation) == PopSum(generation, LAMBDA id : TRUE)

\* C5: population conservation. In a returned population table, at every
\* generation where the populations of the genotypes other than genotype-0
\* sum to at most 100, the populations including the genotype-0 row sum
\* to exactly 100.
C5_PopulationConservation ==
    PopReturned =>
        \A g \in NonRootGenerations :
            NonRootSum(g) <= FULL => TotalSum(g) = FULL

\* C5 witness: a returned table with a generation that is not
\* oversubscribed, where a genotype with children was reduced by its
\* children and genotype-0 received a positive remainder.
C5_Witness ==
    /\ PopReturned
    /\ \E g \in NonRootGenerations :
         /\ NonRootSum(g) > 0
         /\ NonRootSum(g) < FULL
         /\ \E i \in 1..Len(population_table) :
              /\ population_table[i].Generation = g
              /\ population_table[i].Identity # ROOT
              /\ Children(edges, population_table[i].Identity) # {}
              /\ population_table[i].Population > MASK_VALUE * 100
              /\ population_table[i].Population <
                    mean_genotypes[population_table[i].Identity][g] * 100
         /\ \E i \in 1..Len(population_table) :
              /\ population_table[i].Generation = g
              /\ population_table[i].Identity = ROOT
              /\ population_table[i].Population > 0

\* C6 (as claimed): at every generation of a returned population table
\* the populations, the genotype-0 row included, sum to at most 100.
C6_TotalAtMostFull ==
    PopReturned => \A g \in NonRootGenerations : TotalSum(g) <= FULL

\* C6 (amended): at every generation the populations, the genotype-0 row
\* included, sum to at most 100 unless the genotypes other than genotype-0
\* already sum to more than 100; then genotype-0 is 0, the other rows are
\* kept as computed and the total is their sum.
C6_TotalAtMostFullUnlessOversubscribed ==
    PopReturned =>
        \A g \in NonRootGenerations :
            IF NonRootSum(g) > FULL
            THEN TotalSum(g) = NonRootSum(g)
            ELSE TotalSum(g) <= FULL

\* C6 witness: a returned table with an oversubscribed generation and its
\* genotype-0 row at 0.
C6_Witness ==
    /\ PopReturned
    /\ \E g \in NonRootGenerations :
         /\ NonRootSum(g) > FULL
         /\ \E i \in 1..Len(population_table) :
              /\ population_table[i].Generation = g
              /\ population_table[i].Identity = ROOT
              /\ population_table[i].Population = 0


\* The rows of genotype-0 at a generation.
RootRowsAt(generation) ==
    {i \in 1..Len(population_table) :
        /\ population_table[i].Identity = ROOT
        /\ population_table[i].Generation = generation}

\* C15: a returned population table has exactly one genotype-0 row for every
\* generation that has a row of another genotype, and none for any other
\* generation; its Population is max(0, 100 - the sum of the others). When
\* the others sum to more than 100 the genotype-0 row is 0 and the rows of
\* the genotypes are not rescaled: a genotype without children keeps 100
\* times its mean frequency.
C15_OneRootRowPerGeneration ==
    PopReturned =>
        /\ \A i \in 1..Len(population_table) :
              population_table[i].Identity = ROOT =>
                 population_table[i].Generation \in NonRootGenerations
        /\ \A g \in NonRootGenerations :
              /\ Cardinality(RootRowsAt(g)) = 1
              /\ \A i \in RootRowsAt(g) :
                   population_table[i].Population =
                      IF FULL - NonRootSum(g) > 0 THEN FULL - NonRootSum(g)
                      ELSE 0
              /\ NonRootSum(g) > FULL =>
                   \A i \in 1..Len(population_table) :
                      (/\ population_table[i].Generation = g
                       /\ population_table[i].Identity # ROOT
                       /\ Children(edges, population_table[i].Identity) = {})
                      => population_table[i].Population =
                           mean_genotypes[population_table[i].Identity][g] * 100

\* C15 witness: a returned table where two genotypes without children sum
\* to more than 100 at a generation, each kept at 100 times its mean, and
\* the single genotype-0 row of that generation is 0.
C15_Witness ==
    /\ PopReturned
    /\ \E g \in NonRootGenerations :
         /\ NonRootSum(g) > FULL
         /\ Cardinality(RootRowsAt(g)) = 1
         /\ \E i, j \in 1..Len(population_table) :
              /\ i # j
              /\ population_table[i].Generation = g
              /\ population_table[j].Generation = g
              /\ population_table[i].Identity # ROOT
              /\ population_table[j].Identity # ROOT
              /\ Children(edges, population_table[i].Identity) = {}
              /\ Children(edges, population_table[j].Identity) = {}
              /\ population_table[i].Population > FULL \div 2
              /\ population_table[j].Population >= FULL \div 2

\* ------------------------------------------------------------------------
\* Claims about the genotype sorter
\* ------------------------------------------------------------------------

SortReturned == sort_pc = "done" /\ sort_raised = "none"

\* C3: the index of the table sort_genotypes returns holds exactly the ids
\* of the table it was given, each id once: the sort is a permutation.
C3_SortIsPermutation ==
    SortReturned =>
        /\ Range(sorted_genotypes) = Range(genotype_frequencies.index)
        /\ Len(sorted_genotypes) = Len(genotype_frequencies.index)

\* The (first detected, first above threshold) pair of genotype g, as
\* sort_genotype_frequencies computes it.
DetectedPair(g) ==
    <<ZeroToNaN(IdxMaxAbove(genotype_frequencies.values[g],
                            genotype_frequencies.columns,
                            sort_options.detection_breakpoint)),
      ZeroTo13(IdxMaxAbove(genotype_frequencies.values[g],
                           genotype_frequencies.columns,
                           sort_options.significant_breakpoint))>>

\* The position of genotype g in the table.
TablePosition(g) ==
    CHOOSE i \in 1..Len(genotype_frequencies.index) :
        genotype_frequencies.index[i] = g

\* C19: the genotypes of one tier come out of sort_genotype_frequencies in
\* ascending order of (first detected, first above threshold) alone;
\* genotypes with the same pair keep the order of the table.
C19_TierOrderByDetection ==
    SortReturned =>
        \A j \in 1..Len(sorted_frames) :
            \A p, q \in 1..Len(sorted_frames[j].index) :
                p < q =>
                    LET a == sorted_frames[j].index[p]
                        b == sorted_frames[j].index[q]
                    IN \/ LexLess(DetectedPair(a), DetectedPair(b))
                       \/ /\ DetectedPair(a) = DetectedPair(b)
                          /\ TablePosition(a) < TablePosition(b)

\* ------------------------------------------------------------------------
\* Claims about genotype generation
\* ------------------------------------------------------------------------

GenCalled == gen_pc \in {"returned", "raised", "mapped"}

GenReturned == gen_pc \in {"returned", "mapped"}

\* C1: generate_genotypes called with a method that is neither "matlab" nor
\* "hierarchy" raises ValueError and hands nothing back: no genotype table,
\* no member map, no linkage matrix.
C1_InvalidMethodRaises ==
    (GenCalled /\ genotype_options.method \notin {"matlab", "hierarchy"}) =>
        /\ gen_raised = "ValueError"
        /\ gen_pc = "raised"
        /\ gen_result = NoResult
        /\ trajectory_to_genotype = {}

\* C1 witness: a call with the method "twostep" on a table of three rows has
\* raised ValueError, after the cache was filled with the pairs of the table.
C1_Witness ==
    /\ gen_pc = "raised"
    /\ genotype_options.method = "twostep"
    /\ gen_raised = "ValueError"
    /\ Len(timepoints) = 3
    /\ gen_result = NoResult

\* The member set of each genotype of the returned member map.
MemberSets ==
    [i \in 1..Len(gen_result.genotype_members) |->
        Range(Split(gen_result.genotype_members[i], "|"))]

C12_PairwiseSymmetry ==
    /\ \A a, b \in CacheIds(PAIRWISE_CALCULATIONS) :
         (a # b /\ {a, b} \in CacheKeys(PAIRWISE_CALCULATIONS)) =>
            \E v \in PairPValues :
               {i \in CacheItems(PAIRWISE_CALCULATIONS) :
                    i[1] \in {<<a, b>>, <<b, a>>}}
                 = {<<<<a, b>>, v>>, <<<<b, a>>, v>>}
    /\ matrix_pc # "unset" =>
         /\ matrix_pc = "done"
         /\ Range(p_value_matrix.index) = CacheIds(PAIRWISE_CALCULATIONS)
         /\ \A a, b \in CacheIds(PAIRWISE_CALCULATIONS) :
              /\ p_value_matrix.cells[<<a, b>>] = p_value_matrix.cells[<<b, a>>]
              /\ a # b => p_value_matrix.cells[<<a, b>>] \in PairPValues

\* C13: a call of generate_genotypes starts with no cache entry left over
\* from an earlier call, so after it the cache holds pairs of the rows of
\* its own table only.
C13_CacheLivesForOneRun ==
    GenCalled => CacheIds(PAIRWISE_CALCULATIONS) \subseteq Range(timepoints)
\* Genotype g of the table is above the threshold of tier k at some
\* timepoint.
ExceedsTier(g, k) ==
    \E i \in 1..NSortTimepoints :
        genotype_frequencies.values[g][i] > SortTierList(sort_options)[k]

\* The frames of the tier loop that hold genotype g.
FramesOf(g) ==
    {j \in 1..Len(sorted_frames) : g \in Range(sorted_frames[j].index)}

\* C14: the tiers are taken in the order [fixed_breakpoint] +
\* frequency_breakpoints, and a genotype that exceeds some tier's threshold
\* is placed exactly once, at the first tier whose threshold it exceeds.
C14_PlacedAtFirstTier ==
    SortReturned =>
        /\ \A j \in 1..(Len(sorted_frames) - 1) :
              sorted_frames[j].tier < sorted_frames[j + 1].tier
        /\ \A g \in Range(genotype_frequencies.index) :
              (\E k \in 1..Len(SortTierList(sort_options)) : ExceedsTier(g, k))
              => /\ Cardinality(FramesOf(g)) = 1
                 /\ \A j \in FramesOf(g) :
                      /\ ExceedsTier(g, sorted_frames[j].tier)
                      /\ \A k \in 1..(sorted_frames[j].tier - 1) :
                            ~ExceedsTier(g, k)

\* C16: the mean genotype table generate_genotypes returns has the
\* timepoint columns of the input table in ascending order, whatever their
\* order in the input, and no members column: the members are returned
\* separately, one entry per genotype.
C16_ColumnsAscending ==
    GenReturned =>
        /\ Range(gen_result.columns) = Range(timepoint_columns)
        /\ Len(gen_result.columns) = Len(timepoint_columns)
        /\ \A i, j \in 1..Len(gen_result.columns) :
              i < j => gen_result.columns[i] < gen_result.columns[j]
        /\ MEMBERS_COLUMN \notin Range(gen_result.columns)
        /\ Len(gen_result.genotype_members) = Len(gen_result.mean_genotypes)
        /\ Len(gen_result.genotype_members) > 0

\* C16 witness: a call on a table whose columns are in descending order has
\* returned.
C16_Witness ==
    /\ GenReturned
    /\ Len(timepoint_columns) > 1
    /\ timepoint_columns[1] > timepoint_columns[2]
    /\ gen_result.columns # timepoint_columns
KeptAtTier(k) ==
    UNION {Range(sorted_frames[j].index) :
             j \in {i \in 1..Len(sorted_frames) : sorted_frames[i].tier = k}}

PoolAtTier(k) ==
    Range(genotype_frequencies.index)
        \ UNION {Range(sorted_frames[j].index) :
                   j \in {i \in 1..Len(sorted_frames) : sorted_frames[i].tier < k}}

\* C20: at a tier with threshold t, sort_genotype_frequencies drops a
\* genotype exactly when it never exceeds t: it keeps every genotype of its
\* pool that exceeds t at some timepoint, whatever the label of that
\* timepoint, and no other.
C20_DroppedIffNeverExceeds ==
    sort_pc = "done" =>
        \A k \in 1..Len(SortTierList(sort_options)) :
            KeptAtTier(k) = {g \in PoolAtTier(k) : ExceedsTier(g, k)}

\* ------------------------------------------------------------------------
\* Claims about the population of a genotype with children
\* ------------------------------------------------------------------------

\* The largest mean frequency among the children of g at generation t.
MaxChildFrequency(g, t) ==
    MaxOf({mean_genotypes[c][t] : c \in Children(edges, g)})

\* C21: in a returned population table, the row of a genotype that has
\* children in the edge table holds, at its generation t,
\* max(epsilon, frequency(genotype, t) - max over its children of
\* frequency(child, t)) * 100 with epsilon = 0.01, so a difference below the
\* detection cutoff and above epsilon is kept as it is.
C21_ParentPopulation ==
    PopReturned =>
        \A i \in 1..Len(population_table) :
            LET g == population_table[i].Identity
                t == population_table[i].Generation
            IN (g # ROOT /\ Children(edges, g) # {}) =>
                  LET d == mean_genotypes[g][t] - MaxChildFrequency(g, t)
                  IN population_table[i].Population =
                        (IF d > MASK_VALUE THEN d ELSE MASK_VALUE) * 100

\* ------------------------------------------------------------------------
\* Claims about the derivative check and the cutoffs of the checks
\* ------------------------------------------------------------------------

\* C22: the derivative/covariance value of a pair is computed only when the
\* pair's subtractive check is False: apply_genotype_checks returns
\* delta = None exactly when subtractive_check is True, and a row of the
\* frame of apply_genotype_checks_to_table holds a derivativeCheck value only
\* when its subtractiveCheck is False.
C22_DerivativeOnlyWhenUndetermined ==
    /\ checks_pc = "apply_genotype_checks" =>
         (genotype_checks.delta.kind = "None"
            <=> genotype_checks.subtractive_check = "True")
    /\ checks_pc = "apply_genotype_checks_to_table" =>
         \A i \in 1..Len(checks_table) :
            checks_table[i].derivativeCheck.kind # "None"
               => checks_table[i].subtractiveCheck = "False"

\* Neither series exceeds the cutoff at timepoint i.
Undetected(i, cutoff) == ~(left[i] > cutoff) /\ ~(right[i] > cutoff)

\* C23: check_derivative_background computes the covariance over the
\* overlapping detected region only: what it returned is what it returns
\* when the values at a timepoint where neither series exceeds
\* detection_cutoff are replaced by other values that do not exceed it.
C23_DerivativeOverDetectedRegion ==
    checks_pc = "check_derivative_background" =>
        LET cutoff == check_options.derivative_detection_cutoff
        IN \A i \in 1..NSeries :
              \A v, w \in {x \in FreqGrid : ~(x > cutoff)} :
                 Undetected(i, cutoff) =>
                    CheckDerivative([left EXCEPT ![i] = v],
                                    [right EXCEPT ![i] = w], cutoff)
                       = derivative_check

\* The rows <<left, right>> at the timepoints where at least one of the two
\* series exceeds the cutoff.
ExceedingRows(cutoff) ==
    SelectIdx([i \in 1..NSeries |-> <<left[i], right[i]>>],
              [i \in 1..NSeries |-> left[i] > cutoff \/ right[i] > cutoff], 1)

\* C24: the checks restrict a pair to exactly the timepoints where at least
\* one of the two series exceeds the detection cutoff:
\* get_detected_points(left, right, dlimit) keeps a timepoint if and only if
\* left > dlimit or right > dlimit there, and the additive and the
\* subtractive check return what their tests give on the timepoints that
\* exceed the detection cutoff of the options.
C24_DetectedIffExceeds ==
    /\ checks_pc = "get_detected_points" =>
         detected_points = ExceedingRows(points_dlimit)
    /\ LET rows == ExceedingRows(check_options.derivative_detection_cutoff)
           additive == IF Len(rows) # 0 THEN ttest_1samp(RowSums(rows), 100)
                       ELSE NeutralResult
           subtractive == IF Len(rows) # 0
                          THEN ttest_1samp(RowAbsDiffs(rows), 0)
                          ELSE NeutralResult
       IN /\ additive_check \notin {"unset", "idle"} =>
               additive_check = PyBool(~PLeq05(HalfPValue(additive.pvalue)))
          /\ subtractive_check \notin {"unset", "idle"} =>
               subtractive_check = PyBool(PGt05(subtractive.pvalue))

MeetsCriterion(l, r, t) ==
    IF valid_arguments.inner
    THEN l[t] > valid_arguments.dlimit /\ r[t] > valid_arguments.dlimit
    ELSE l[t] > valid_arguments.dlimit \/ r[t] > valid_arguments.dlimit

\* C26: get_valid_points removes every timepoint that fails the detection
\* criterion (calls without flimit): with inner = False each returned
\* timepoint has at least one of the two series above dlimit, with
\* inner = True each returned timepoint has both above dlimit, and when no
\* timepoint qualifies both returned series are empty.
C26_ValidPointsMeetCriterion ==
    (valid_pc = "done" /\ valid_arguments.flimit = FLIMIT_NONE) =>
        /\ \A k \in 1..Len(valid_result.index) :
              MeetsCriterion(left_trajectory, right_trajectory,
                             valid_result.index[k])
        /\ (\A t \in 1..ValidLen :
               ~MeetsCriterion(left_trajectory, right_trajectory, t))
           => /\ valid_result.result_left = <<>>
              /\ valid_result.result_right = <<>>

\* The series with every value above flimit treated as undetected.
MaskedAbove(series, flimit) ==
    [i \in 1..Len(series) |-> IF series[i] > flimit THEN -1 ELSE series[i]]

\* C27: when flimit is given, the valid timepoints are chosen with every
\* point whose value exceeds flimit treated as undetected, whatever flimit
\* is, and with the points at or below flimit as they are.
C27_MaskAboveFlimit ==
    (valid_pc = "done" /\ valid_arguments.flimit # FLIMIT_NONE) =>
        \A t \in 1..ValidLen :
            at_least_one_detected[t] <=>
                MeetsCriterion(
                    MaskedAbove(left_trajectory, valid_arguments.flimit),
                    MaskedAbove(right_trajectory, valid_arguments.flimit), t)

\* ------------------------------------------------------------------------
\* Claims about the output tables (checked under SpecOutput)
\* ------------------------------------------------------------------------

\* C28: the trajectory table is read-only for the whole pipeline: no step
\* of generate_formatted_output or save_output changes the rows or the
\* columns of workflow_data.trajectories, and none changes the genotype
\* table, which keeps its members column.
C28_TablesReadOnly ==
    [][/\ workflow_data'.trajectories = workflow_data.trajectories
       /\ workflow_data'.genotypes = workflow_data.genotypes
       /\ "members" \in Range(workflow_data'.genotypes.columns)]_vars

=========================================================================
